---------------------------- MODULE Spec2Model ----------------------------
(***************************************************************************)
(* Route optimization engine of driverPro (backend/app/services):          *)
(*   or_tools_service.py   VRPSolver, optimize_route,                      *)
(*                         optimize_route_with_clustering                  *)
(*   clustering_service.py haversine matrix, cluster_stops,                *)
(*                         optimize_cluster_order, _two_opt_improve        *)
(*   google_maps_service.py get_distance_matrix (the Distance Oracle)      *)
(* and the handler record_delivery_failure of backend/app/api/             *)
(* delivery_attempts.py with the tables of the data store it writes.       *)
(*                                                                         *)
(* Locations lie on the equator: a location is its longitude, an integer   *)
(* number of 1/Scale degrees (so that a centroid, a mean of at most        *)
(* MaxStops longitudes, is again an integer).  Location indices are        *)
(* 0-based as in the code; Loc(seq, i) reads index i of a Python list.     *)
(***************************************************************************)
EXTENDS Integers, Sequences, FiniteSets, TLC

(***************************************************************************)
(* Bounds of the model.                                                    *)
(***************************************************************************)
MaxStops == 3
MaxLongitude == 1
NumStarts == 2
MaxUnavailable == 1
MaxTimeLimit == 60
MaxBudgetStarts == 6
MaxOrderClusters == 4
MaxOrderLongitude == 3
MaxAttemptRows == 2
NumUsers == 2
MaxDays == 2

(***************************************************************************)
(* Program constants.                                                      *)
(***************************************************************************)
R == 6371000
DEFAULT_SERVICE_TIME == 120
time_limit_seconds == 120
avg_speed_kmh == 30
SlackMax == 30 * 60
Horizon == 24 * 60 * 60
min_clusters == 2
max_clusters == 10

\* Python's None: for an optional number (a location, a time-window bound) a
\* value no longitude or time takes; for an optional dict the record Null; a
\* missing solution of the routing library is the empty route.
None == 0 - 1
Null == [null |-> TRUE]
NoSolution == <<>>
\* optimize_route has not returned yet
NotReturned == [returned |-> FALSE]

(***************************************************************************)
(* Small arithmetic and sequence helpers.                                  *)
(***************************************************************************)
Abs(x) == IF x < 0 THEN -x ELSE x
Max(a, b) == IF a >= b THEN a ELSE b
Min(a, b) == IF a <= b THEN a ELSE b
CeilDiv(a, b) == (a + b - 1) \div b

RECURSIVE Lcm1To(_)
Gcd(a, b) == CHOOSE g \in 1..Max(a, b) :
                /\ a % g = 0 /\ b % g = 0
                /\ \A h \in 1..Max(a, b) : (a % h = 0 /\ b % h = 0) => h <= g
Lcm1To(n) == IF n <= 1 THEN 1 ELSE LET l == Lcm1To(n - 1) IN (l * n) \div Gcd(l, n)
\* One degree is Scale location units.
Scale == Lcm1To(MaxStops)

RECURSIVE SumSeq(_)
SumSeq(s) == IF s = <<>> THEN 0 ELSE Head(s) + SumSeq(Tail(s))

\* A stop dict may lack the key order_preference, or carry it with the
\* value None: the field then holds one of these two markers.
AbsentKey == "(absent key)"
NoneValue == "None"
\* stop.get('order_preference', default)
GetOrderPreference(stop, default) ==
    IF stop.order_preference = AbsentKey THEN default ELSE stop.order_preference

RECURSIVE Filter(_, _, _)
\* [x for x in s if x.get('order_preference', default) == p]
Filter(s, p, default) ==
    IF s = <<>> THEN <<>>
    ELSE IF GetOrderPreference(Head(s), default) = p
         THEN <<Head(s)>> \o Filter(Tail(s), p, default)
         ELSE Filter(Tail(s), p, default)

RECURSIVE PermSeqs(_)
PermSeqs(S) == IF S = {} THEN {<<>>}
               ELSE UNION {{<<x>> \o p : p \in PermSeqs(S \ {x})} : x \in S}

Range(s) == {s[i] : i \in 1..Len(s)}
\* Python list indexing, 0-based.
Loc(s, i) == s[i + 1]

(***************************************************************************)
(* Geo-Distance Estimator (clustering_service.py).                         *)
(***************************************************************************)
\* R * radians(1), metres per degree of longitude on the equator.
MetersPerDegree == ((R \div 1000) * 31416) \div 1800

\* haversine_distance for two points of latitude 0; the value is the float
\* distance in units of 1/Scale metre (exact, no truncation).
haversine_distance(lon1, lon2) == MetersPerDegree * Abs(lon2 - lon1)

\* int(dist): the distance matrix entry, whole metres.
IntMeters(dist) == dist \div Scale

\* haversine_to_duration: int(distance / (avg_speed_kmh * 1000 / 3600)).
haversine_to_duration(dist) == (dist * 36) \div (avg_speed_kmh * 10 * Scale)

\* create_haversine_matrix: [i][j] matrices over 0-based indices.
HaversineDistanceMatrix(locations) ==
    [i \in 0..Len(locations) - 1 |-> [j \in 0..Len(locations) - 1 |->
        IF i # j THEN IntMeters(haversine_distance(Loc(locations, i), Loc(locations, j)))
        ELSE 0]]

HaversineDurationMatrix(locations) ==
    [i \in 0..Len(locations) - 1 |-> [j \in 0..Len(locations) - 1 |->
        IF i # j THEN haversine_to_duration(haversine_distance(Loc(locations, i), Loc(locations, j)))
        ELSE 0]]


(***************************************************************************)
(* Distance Oracle (google_maps_service.get_distance_matrix): the element  *)
(* for one origin/destination pair.  The road values are the environment's:*)
(* a quarter longer than the great circle.  An element the oracle cannot   *)
(* resolve carries a status other than OK and no values.                   *)
(***************************************************************************)
OracleDistance(o, d) ==
    LET m == IntMeters(haversine_distance(o, d)) IN m + m \div 4
OracleDuration(o, d) ==
    LET t == haversine_to_duration(haversine_distance(o, d)) IN t + t \div 4
OracleElement(o, d, ok) ==
    IF ok THEN [status |-> "OK", distance |-> OracleDistance(o, d),
                duration |-> OracleDuration(o, d)]
    ELSE [status |-> "NOT_FOUND", distance |-> 0, duration |-> 0]

\* result['rows'][i]['elements'][j] for origins x destinations; bad is the
\* set of <<i, j>> pairs the oracle marks unavailable.
get_distance_matrix(origins, destinations, bad) ==
    [i \in 0..Len(origins) - 1 |-> [j \in 0..Len(destinations) - 1 |->
        OracleElement(Loc(origins, i), Loc(destinations, j), <<i, j>> \notin bad)]]

\* An answer whose rows in short stop before their diagonal element: row i
\* then holds elements 0..i-1 only.
ShortRows(rows, short) ==
    [i \in DOMAIN rows |->
        IF i \in short THEN [j \in 0..i - 1 |-> rows[i][j]] ELSE rows[i]]

\* The record of one call: what it was made for, its arguments, and
\* whether it answered or raised.
OracleCall(purpose, origins, destinations, outcome) ==
    [purpose |-> purpose, origins |-> origins, destinations |-> destinations,
     outcome |-> outcome]

\* The sets of unavailable pairs the model lets the oracle choose from.
RECURSIVE SubsetsUpTo(_, _)
SubsetsUpTo(pairs, k) ==
    IF k = 0 THEN {{}}
    ELSE LET smaller == SubsetsUpTo(pairs, k - 1)
         IN smaller \cup {b \cup {x} : b \in smaller, x \in pairs}
BadSets(pairs) == SubsetsUpTo(pairs, MaxUnavailable)
\* For the n x n call of create_distance_matrix the model's oracle may fail
\* on the pair from the first to the second location only.
MatrixBadSets(n) == BadSets({<<0, 1>>} \cap ((0..n - 1) \X (0..n - 1)))

(***************************************************************************)
(* VRPSolver.create_distance_matrix, Google branch (lines 100-126).        *)
(***************************************************************************)
OracleDistanceMatrix(rows) ==
    [i \in DOMAIN rows |-> [j \in DOMAIN rows[i] |->
        IF rows[i][j].status = "OK" THEN rows[i][j].distance ELSE 0]]
OracleDurationMatrix(rows) ==
    [i \in DOMAIN rows |-> [j \in DOMAIN rows[i] |->
        IF rows[i][j].status = "OK" THEN rows[i][j].duration ELSE 0]]

(***************************************************************************)
(* VRPSolver.refine_with_google_maps (lines 139-170): the diagonal of the  *)
(* oracle's answer for origins = route[:-1], destinations = route[1:].     *)
(***************************************************************************)
RouteLocations(locs, route) == [k \in 1..Len(route) |-> Loc(locs, route[k])]
\* A variant whose destinations are the origins again (route[:-1]).
Destinations_SameAsOrigins(route_locations) ==
    SubSeq(route_locations, 1, Len(route_locations) - 1)
Origins(route_locations) == SubSeq(route_locations, 1, Len(route_locations) - 1)
Destinations(route_locations) == SubSeq(route_locations, 2, Len(route_locations))

\* A variant that reads the first column of the answer instead of its diagonal.
RefinedDistance_FirstColumn(rows) ==
    SumSeq([k \in 1..Cardinality(DOMAIN rows) |->
        LET i == k - 1 IN
        IF 0 \in DOMAIN rows[i] /\ rows[i][0].status = "OK"
        THEN rows[i][0].distance ELSE 0])
RefinedDistance(rows) ==
    SumSeq([k \in 1..Cardinality(DOMAIN rows) |->
        LET i == k - 1 IN
        IF i \in DOMAIN rows[i] /\ rows[i][i].status = "OK"
        THEN rows[i][i].distance ELSE 0])
\* A variant that, where a row lacks its diagonal element, counts the row's
\* first element instead.
RefinedDuration_FallBack(rows) ==
    SumSeq([k \in 1..Cardinality(DOMAIN rows) |->
        LET i == k - 1 IN
        IF i \in DOMAIN rows[i]
        THEN IF rows[i][i].status = "OK" THEN rows[i][i].duration ELSE 0
        ELSE IF 0 \in DOMAIN rows[i] THEN rows[i][0].duration ELSE 0])
RefinedDuration(rows) ==
    SumSeq([k \in 1..Cardinality(DOMAIN rows) |->
        LET i == k - 1 IN
        IF i \in DOMAIN rows[i] /\ rows[i][i].status = "OK"
        THEN rows[i][i].duration ELSE 0])

(***************************************************************************)
(* VRPSolver.solve (lines 172-293).  The routing library is the            *)
(* environment: one search attempt returns nothing (time limit reached, or *)
(* no feasible tour) or some tour that starts at start_index, ends at      *)
(* end_index, visits every other node once and satisfies the Time          *)
(* dimension.                                                              *)
(***************************************************************************)
\* time_callback (lines 222-229)
time_callback(dur, service_time, s, e, from, to) ==
    IF to # s /\ to # e THEN dur[from][to] + service_time ELSE dur[from][to]

\* transit_callback (lines 203-216): the arc cost
transit_callback(cfg, dist, dur, s, e, from, to) ==
    IF cfg.optimize_for_duration
    THEN time_callback(dur, cfg.service_time_seconds, s, e, from, to)
    ELSE dist[from][to]

\* Tours of the routing model: start, every other node once, end.
Routes(n, s, e) == {<<s>> \o p \o <<e>> : p \in PermSeqs((0..n - 1) \ {s, e})}

\* The range SetRange gives the cumul variable of the node at position k of
\* the route (lines 241-247); the start node is skipped and the end of a
\* closed tour is the start node.
CumulRange(time_windows, node, s) ==
    IF Len(time_windows) = 0 \/ node = s THEN <<0, Horizon>>
    ELSE Loc(time_windows, node)

\* The Time dimension (lines 232-247) admits the route: cumul(next) =
\* cumul(prev) + transit + slack, 0 <= slack <= SlackMax, 0 <= cumul <= Horizon.
TimeFeasible(route, dur, service_time, time_windows, s, e) ==
    LET t(k) == time_callback(dur, service_time, s, e, route[k - 1], route[k])
        w(k) == CumulRange(time_windows, route[k], s)
        lo[k \in 1..Len(route)] ==
            IF k = 1 THEN 0 ELSE Max(lo[k - 1] + t(k), Max(0, w(k)[1]))
        hi[k \in 1..Len(route)] ==
            IF k = 1 THEN Horizon
            ELSE Min(hi[k - 1] + t(k) + SlackMax, Min(Horizon, w(k)[2]))
    IN \A k \in 1..Len(route) : lo[k] <= hi[k]

FeasibleRoutes(n, dur, service_time, time_windows, s, e) ==
    {r \in Routes(n, s, e) : TimeFeasible(r, dur, service_time, time_windows, s, e)}

\* _extract_solution (lines 295-317): total_distance sums the arc costs,
\* total_duration the duration matrix over the legs.
ExtractDistance(route, cfg, dist, dur, s, e) ==
    SumSeq([k \in 1..Len(route) - 1 |->
        transit_callback(cfg, dist, dur, s, e, route[k], route[k + 1])])
ExtractDuration(route, dur) ==
    SumSeq([k \in 1..Len(route) - 1 |-> dur[route[k]][route[k + 1]]])
_extract_solution(route, cfg, dist, dur, s, e) ==
    [route |-> route,
     total_distance_meters |-> ExtractDistance(route, cfg, dist, dur, s, e),
     total_duration_seconds |-> ExtractDuration(route, dur)]

\* solution.ObjectiveValue(): the sum of the arc costs of the tour.
ObjectiveValue(route, cfg, dist, dur, s, e) ==
    SumSeq([k \in 1..Len(route) - 1 |->
        transit_callback(cfg, dist, dur, s, e, route[k], route[k + 1])])

\* A variant that keeps the latest solution whatever its cost.
Improves_Always(cost, best) == TRUE
\* line 289: the attempt's solution replaces the retained one
Improves(cost, best) == cost < best

\* A variant without the 10-second floor.
TimePerStart_NoFloor(cfg) == cfg.time_limit_seconds \div cfg.num_starts
\* line 270: time_per_start
TimePerStart(cfg) == Max(10, cfg.time_limit_seconds \div cfg.num_starts)

\* What one routing.SolveWithParameters call may return.
SolveWithParameters(n, cfg, dur, time_windows, s, e) ==
    {NoSolution} \cup FeasibleRoutes(n, dur, cfg.service_time_seconds, time_windows, s, e)

(***************************************************************************)
(* Cluster Builder (clustering_service.cluster_stops, lines 77-129).       *)
(***************************************************************************)
\* ClusterConfig(max_stops_per_cluster=cap) (lines 14-19)
ClusterConfig(cap) ==
    [max_stops_per_cluster |-> cap, min_clusters |-> min_clusters,
     max_clusters |-> max_clusters]

\* A variant that rounds n_stops / max_stops_per_cluster down.
NClusters_Floor(n_stops, cap, minc, maxc) == Min(Max(minc, n_stops \div cap), maxc)

\* n_clusters (lines 101-104)
NClusters(n_stops, cap, minc, maxc) == Min(Max(minc, CeilDiv(n_stops, cap)), maxc)

\* KMeans(n_clusters=k).fit_predict(coords): the labellings k-means can
\* return.  Every point is labelled with its nearest centre, so equal points
\* share a label and a cluster is an interval of the line; k-means fills
\* every cluster when there are at least k distinct points and finds one
\* cluster per distinct point otherwise.
KMeansLabels(coords, k) ==
    LET n == Len(coords)
        distinct == Cardinality(Range(coords))
    IN {f \in [1..n -> 0..k - 1] :
          /\ \A i, j \in 1..n : coords[i] = coords[j] => f[i] = f[j]
          /\ \A i, j, l \in 1..n :
                (coords[i] <= coords[l] /\ coords[l] <= coords[j] /\ f[i] = f[j])
                    => f[l] = f[i]
          /\ Cardinality({f[i] : i \in 1..n}) = Min(k, distinct)}

RECURSIVE SelectLabel(_, _, _, _)
\* the stops labelled c, in input order (lines 121-124)
SelectLabel(stps, labels, c, i) ==
    IF i > Len(stps) THEN <<>>
    ELSE (IF labels[i] = c THEN <<stps[i]>> ELSE <<>>) \o SelectLabel(stps, labels, c, i + 1)

RECURSIVE NonEmpty(_)
\* [c for c in clusters if len(c) > 0] (line 127)
\* A variant that keeps the clusters k-means left empty.
NonEmpty_KeepAll(cls) == cls
NonEmpty(cls) ==
    IF cls = <<>> THEN <<>>
    ELSE (IF Len(Head(cls)) > 0 THEN <<Head(cls)>> ELSE <<>>) \o NonEmpty(Tail(cls))

GroupByLabels(stps, labels, k) ==
    NonEmpty([c \in 1..k |-> SelectLabel(stps, labels, c - 1, 1)])

\* The lists of clusters cluster_stops may return.
cluster_stops(stps, ccfg) ==
    IF Len(stps) <= ccfg.max_stops_per_cluster THEN {<<stps>>}
    ELSE LET k == NClusters(Len(stps), ccfg.max_stops_per_cluster,
                            ccfg.min_clusters, ccfg.max_clusters)
             coords == [i \in 1..Len(stps) |-> stps[i].longitude]
         IN {GroupByLabels(stps, labels, k) : labels \in KMeansLabels(coords, k)}

(***************************************************************************)
(* Cluster Sequencer (clustering_service.py, lines 132-247).               *)
(***************************************************************************)
get_cluster_centroid(stps) ==
    IF Len(stps) = 0 THEN 0
    ELSE SumSeq([i \in 1..Len(stps) |-> stps[i].longitude]) \div Len(stps)

\* total_distance(o) of _two_opt_improve (lines 221-232); o holds 0-based
\* cluster indices.
PathLength(o, centroids, start, end) ==
    (IF start # None THEN haversine_distance(start, Loc(centroids, o[1])) ELSE 0)
    + SumSeq([i \in 1..Len(o) - 1 |->
          haversine_distance(Loc(centroids, o[i]), Loc(centroids, o[i + 1]))])
    + (IF end # None THEN haversine_distance(Loc(centroids, o[Len(o)]), end) ELSE 0)

\* best_order[:i+1] + best_order[i+1:j+1][::-1] + best_order[j+1:] (line 240)
ReverseSegment(o, i, j) ==
    [k \in 1..Len(o) |-> IF k >= i + 2 /\ k <= j + 1 THEN o[(i + 2) + (j + 1) - k] ELSE o[k]]

RECURSIVE TwoOptScan(_, _, _, _, _, _, _)
\* one pass of the for-loops (lines 238-245) from position (i, j)
TwoOptScan(best, i, j, improved, centroids, start, end) ==
    IF i > Len(best) - 2 THEN <<best, improved>>
    ELSE IF j > Len(best) - 1
         THEN TwoOptScan(best, i + 1, i + 3, improved, centroids, start, end)
         ELSE LET new_order == ReverseSegment(best, i, j)
              IN IF PathLength(new_order, centroids, start, end)
                        < PathLength(best, centroids, start, end)
                 THEN TwoOptScan(new_order, i, j + 1, TRUE, centroids, start, end)
                 ELSE TwoOptScan(best, i, j + 1, improved, centroids, start, end)

\* A variant that applies the first reversal whether or not it shortens
\* the path.
_two_opt_improve_FirstMove(order, centroids, start, end) ==
    IF Len(order) > 2 THEN ReverseSegment(order, 0, 2) ELSE order
\* A variant that stops at the first reversal that shortens the path.
_two_opt_improve_FirstGain(order, centroids, start, end) ==
    LET gains == {p \in (0..Len(order) - 2) \X (2..Len(order) - 1) :
                    /\ p[2] >= p[1] + 2
                    /\ PathLength(ReverseSegment(order, p[1], p[2]), centroids,
                                  start, end)
                          < PathLength(order, centroids, start, end)}
    IN IF gains = {} THEN order
       ELSE LET g == CHOOSE p \in gains : \A q \in gains :
                         p[1] < q[1] \/ (p[1] = q[1] /\ p[2] <= q[2])
            IN ReverseSegment(order, g[1], g[2])

RECURSIVE _two_opt_improve(_, _, _, _)
_two_opt_improve(order, centroids, start, end) ==
    LET r == TwoOptScan(order, 0, 2, FALSE, centroids, start, end)
    IN IF r[2] THEN _two_opt_improve(r[1], centroids, start, end) ELSE r[1]

\* A variant that looks for the nearest cluster among all of them, visited
\* or not.
NearestUnvisited_AnyCluster(centroids, visited, current_pos) ==
    CHOOSE i \in 0..Len(centroids) - 1 :
        \A j \in 0..Len(centroids) - 1 :
            LET di == haversine_distance(current_pos, Loc(centroids, i))
                dj == haversine_distance(current_pos, Loc(centroids, j))
            IN di < dj \/ (di = dj /\ i <= j)

\* the unvisited cluster nearest to current_pos, first index on ties
\* (lines 183-197)
NearestUnvisited(centroids, visited, current_pos) ==
    CHOOSE i \in (0..Len(centroids) - 1) \ visited :
        \A j \in (0..Len(centroids) - 1) \ visited :
            LET di == haversine_distance(current_pos, Loc(centroids, i))
                dj == haversine_distance(current_pos, Loc(centroids, j))
            IN di < dj \/ (di = dj /\ i <= j)

RECURSIVE NearestNeighbor(_, _, _)
\* the while loop (lines 182-202)
NearestNeighbor(centroids, order, current_pos) ==
    IF Len(order) >= Len(centroids) THEN order
    ELSE LET b == NearestUnvisited(centroids, Range(order), current_pos)
         IN NearestNeighbor(centroids, Append(order, b), Loc(centroids, b))

NearestNeighborOrder(centroids, start) ==
    IF start # None THEN NearestNeighbor(centroids, <<>>, start)
    ELSE NearestNeighbor(centroids, <<0>>, Loc(centroids, 0))

\* A variant that runs 2-opt only when a start location is given as well.
optimize_cluster_order_NeedsStart(cls, start, end) ==
    IF Len(cls) <= 1 THEN [i \in 1..Len(cls) |-> i - 1]
    ELSE LET centroids == [i \in 1..Len(cls) |-> get_cluster_centroid(cls[i])]
             order == NearestNeighborOrder(centroids, start)
         IN IF start # None /\ end # None /\ Len(order) > 2
            THEN _two_opt_improve(order, centroids, start, end)
            ELSE order
optimize_cluster_order(cls, start, end) ==
    IF Len(cls) <= 1 THEN [i \in 1..Len(cls) |-> i - 1]
    ELSE LET centroids == [i \in 1..Len(cls) |-> get_cluster_centroid(cls[i])]
             order == NearestNeighborOrder(centroids, start)
         IN IF end # None /\ Len(order) > 2
            THEN _two_opt_improve(order, centroids, start, end)
            ELSE order

(***************************************************************************)
(* Optimization Orchestrator (or_tools_service.py, lines 320-547).         *)
(***************************************************************************)
\* A stop dict of the input is the object obj = its position in the input
\* list; obj = 0 is a dict made inside the call.
\* A variant that hands back the dict itself.
copy_Alias(stop) == stop
\* stop.copy(): a new dict with the same keys and values
copy(stop) == [stop EXCEPT !.obj = 0]
CopyAll(stps) == [k \in 1..Len(stps) |-> copy(stps[k])]

\* stop['sequence_order'] = k
WithSeq(stop, k) ==
    [f \in DOMAIN stop \cup {"sequence_order"} |->
        IF f = "sequence_order" THEN k ELSE stop[f]]

\* lines 341-343 and 471-473
first_stops(stps) == Filter(stps, "first", NoneValue)
auto_stops(stps) == Filter(stps, "auto", "auto")
last_stops(stps) == Filter(stps, "last", NoneValue)

\* lines 359-375
BuildLocations(autos, start, end) ==
    (IF start # None THEN <<start>> ELSE <<>>)
    \o [i \in 1..Len(autos) |-> autos[i].longitude]
    \o (IF end # None /\ end # start THEN <<end>> ELSE <<>>)
EndIndex(autos, start, end) ==
    IF end # None /\ end # start THEN Len(BuildLocations(autos, start, end)) - 1 ELSE 0

RECURSIVE OptimizedAutoStops(_, _, _, _, _, _)
\* lines 394-405
OptimizedAutoStops(route, autos, start, end, s, e) ==
    IF route = <<>> THEN <<>>
    ELSE LET node_index == Head(route)
             offset == IF start # None THEN 1 ELSE 0
             stop_index == node_index - offset
             rest == OptimizedAutoStops(Tail(route), autos, start, end, s, e)
         IN IF node_index = s \/ (end # None /\ node_index = e) THEN rest
            ELSE IF 0 <= stop_index /\ stop_index < Len(autos)
                 THEN <<copy(autos[stop_index + 1])>> \o rest
                 ELSE rest

\* A variant that numbers the optimized stops before the first stops.
AssignSequence_AutoFirst(firsts, optimized, lasts) ==
    LET all == optimized \o CopyAll(firsts) \o CopyAll(lasts)
    IN [k \in 1..Len(all) |-> WithSeq(all[k], k)]
\* lines 407-426 and 521-540: sequence positions from 1 in list order,
\* written on copies of the first and last stops and on the optimized stops
\* themselves
AssignSequence(firsts, optimized, lasts) ==
    LET all == CopyAll(firsts) \o optimized \o CopyAll(lasts)
    IN [k \in 1..Len(all) |-> WithSeq(all[k], k)]

\* The input list after stop['sequence_order'] = k was executed on the dicts
\* of final_stops: a dict that is an input object shows the write.
WriteBack(stps, final_stops) ==
    [i \in 1..Len(stps) |->
        IF \E k \in 1..Len(final_stops) : final_stops[k].obj = i
        THEN LET k == CHOOSE k \in 1..Len(final_stops) : final_stops[k].obj = i
             IN WithSeq(stps[i], final_stops[k].sequence_order)
        ELSE stps[i]]

\* lines 428-432
RouteResult(stps, dist, dur) ==
    [stops |-> stps, total_distance_meters |-> dist, total_duration_seconds |-> dur]

\* A variant that keeps the stops in input order.
FixedOnlyResult_InputOrder(stps) ==
    RouteResult(AssignSequence(stps, <<>>, <<>>), 0, 0)
\* lines 346-357: the result when no stop is auto
FixedOnlyResult(stps) ==
    RouteResult(AssignSequence(first_stops(stps), <<>>, last_stops(stps)), 0, 0)

\* A variant that clusters already at max_stops_per_cluster auto stops.
DirectPath_Strict(stps, cfg) ==
    \/ Len(auto_stops(stps)) = 0
    \/ ~cfg.enable_clustering
    \/ Len(auto_stops(stps)) < cfg.max_stops_per_cluster
\* line 476: the direct path is taken
DirectPath(stps, cfg) ==
    \/ Len(auto_stops(stps)) = 0
    \/ ~cfg.enable_clustering
    \/ Len(auto_stops(stps)) <= cfg.max_stops_per_cluster

(***************************************************************************)
(* State.                                                                  *)
(***************************************************************************)
VARIABLES
    stops, start_location, end_location, config,   \* arguments of the call
    pc,                    \* where the call stands
    result,                \* what optimize_route_with_clustering returned
    clusters,              \* cluster_stops(auto_stops, cluster_config)
    ordered_clusters,      \* [clusters[i] for i in cluster_order]
    cluster_idx,           \* loop index of lines 494-519
    all_optimized_stops, total_distance, total_duration,
    caller,                \* who awaits optimize_route: "direct" or "cluster"
    or_stops, or_start, or_end,  \* arguments of the running optimize_route
    or_result,             \* what the last optimize_route returned
    locations, start_index, end_index,
    time_windows,          \* VRPSolver.time_windows
    distance_matrix, duration_matrix,
    time_per_start,        \* solve's time limit of one attempt, line 270
    attempt, best_cost, best_solution,   \* the loop of solve, lines 278-291
    attempt_costs,         \* the ObjectiveValue() of the attempts of this loop
                           \* that returned a solution
    solution,              \* optimize_route's solution dict
    oracle_calls,          \* calls of get_distance_matrix so far
    oracle_rows,           \* result['rows'] given to a refine_with_google_maps
                           \* call made on its own
    cluster_config,        \* the ClusterConfig given to cluster_stops
    n_clusters,            \* the n_clusters a cluster_stops call made on its
                           \* own gave to KMeans (None: KMeans not called)
    cluster_order,         \* optimize_cluster_order(clusters, ...), line 486;
                           \* for _two_opt_improve called on its own, its
                           \* argument order and then the order it returns
    request,               \* the request record_delivery_failure last handled
    response,              \* and its HTTP response
    delivery_attempts, stops_table, routes_table   \* tables of the data store

vars == <<stops, start_location, end_location, config, pc, result, clusters,
          ordered_clusters, cluster_idx, all_optimized_stops, total_distance,
          total_duration, caller, or_stops, or_start, or_end, or_result,
          locations, start_index, end_index, time_windows, distance_matrix,
          duration_matrix, attempt, best_cost, best_solution, solution,
          oracle_calls, oracle_rows, cluster_config, time_per_start,
          attempt_costs, n_clusters, cluster_order, request, response,
          delivery_attempts, stops_table, routes_table>>

inputVars == <<stops, start_location, end_location, config>>
paramVars == <<start_location, end_location, config>>
owcVars == <<clusters, ordered_clusters, cluster_config>>
oracleVars == <<oracle_calls, oracle_rows>>
accVars == <<cluster_idx, all_optimized_stops, total_distance, total_duration>>
argVars == <<caller, or_stops, or_start, or_end>>
solverVars == <<locations, start_index, end_index, time_windows,
                distance_matrix, duration_matrix, time_per_start>>
searchVars == <<attempt, best_cost, best_solution, attempt_costs>>
sequencerVars == <<n_clusters, cluster_order>>
storeVars == <<delivery_attempts, stops_table, routes_table>>
apiVars == <<request, response, delivery_attempts, stops_table, routes_table>>

Longitudes == {d * Scale : d \in 0..MaxLongitude}
Preferences == {"first", "auto", "last"}
Infinity == 1000000000

\* The stop lists of the calls: stop i of the list has id i; windows are the
\* <<time_window_start, time_window_end>> pairs the stops may carry.
StopLists(prefs, windows) ==
    UNION {{[i \in 1..n |-> [obj |-> i,
                             id |-> i, order_preference |-> p[i], longitude |-> l[i],
                             time_window_start |-> w[i][1],
                             time_window_end |-> w[i][2]]] :
              p \in [1..n -> prefs], l \in [1..n -> Longitudes],
              w \in [1..n -> windows]} : n \in 0..MaxStops}

Configs ==
    [enable_clustering : BOOLEAN,
     max_stops_per_cluster : 1..(MaxStops - 1),
     use_haversine_precompute : BOOLEAN,
     optimize_for_duration : BOOLEAN,
     num_starts : {NumStarts},
     time_limit_seconds : {time_limit_seconds},
     service_time_seconds : {DEFAULT_SERVICE_TIME}]

\* Nothing has run yet.
OwcIdle ==
    /\ result = Null
    /\ clusters = <<>> /\ ordered_clusters = <<>>
    /\ cluster_idx = 0 /\ all_optimized_stops = <<>>
    /\ total_distance = 0 /\ total_duration = 0
    /\ caller = "nobody" /\ or_stops = <<>> /\ or_start = None /\ or_end = None
    /\ or_result = NotReturned
SolverIdle ==
    /\ start_index = 0 /\ end_index = 0
    /\ time_windows = <<>>
    /\ distance_matrix = <<>> /\ duration_matrix = <<>>
    /\ time_per_start = 0
    /\ attempt = 0 /\ best_cost = Infinity /\ best_solution = Null
    /\ attempt_costs = {}
SequencerIdle == n_clusters = None /\ cluster_order = <<>>
ApiIdle ==
    /\ request = Null /\ response = Null
    /\ delivery_attempts = <<>> /\ stops_table = <<>> /\ routes_table = <<>>
OracleIdle ==
    /\ oracle_calls = <<>>
    /\ oracle_rows = <<>>

\* A call of optimize_route_with_clustering(stops, start_location,
\* end_location, config).
Init ==
    /\ stops \in StopLists(Preferences, {<<None, None>>})
    /\ start_location \in {None, 0}
    /\ end_location \in {None} \cup Longitudes
    /\ config \in Configs
    /\ pc = "optimize_route_with_clustering"
    /\ cluster_config = Null
    /\ locations = <<>>
    /\ solution = Null
    /\ OwcIdle /\ SolverIdle /\ OracleIdle /\ SequencerIdle /\ ApiIdle

\* The same call on auto stops that carry time windows.
\* (time_window_start, time_window_end) in seconds since midnight: none,
\* 00:00-00:10 and 01:00-01:10.
TimeWindows == {<<None, None>>, <<0, 10 * 60>>, <<60 * 60, 70 * 60>>}
InitTW ==
    /\ stops \in StopLists({"auto"}, TimeWindows)
    /\ start_location \in {None, 0}
    /\ end_location \in {None} \cup Longitudes
    /\ config \in {c \in Configs : c.optimize_for_duration
                                   /\ c.max_stops_per_cluster = MaxStops - 1}
    /\ pc = "optimize_route_with_clustering"
    /\ cluster_config = Null
    /\ locations = <<>>
    /\ solution = Null
    /\ OwcIdle /\ SolverIdle /\ OracleIdle /\ SequencerIdle /\ ApiIdle

\* The same call on three auto stops in a line, one degree apart: (0, 0),
\* (0, 1), (0, 2).
CollinearStops ==
    [i \in 1..3 |->
        [obj |-> i, id |-> i, order_preference |-> "auto",
         longitude |-> (i - 1) * Scale,
         time_window_start |-> None, time_window_end |-> None]]
InitCollinear ==
    /\ stops = CollinearStops
    /\ start_location \in {None, 0}
    /\ end_location \in {None} \cup Longitudes
    /\ config \in Configs
    /\ pc = "optimize_route_with_clustering"
    /\ cluster_config = Null
    /\ locations = <<>>
    /\ solution = Null
    /\ OwcIdle /\ SolverIdle /\ OracleIdle /\ SequencerIdle /\ ApiIdle

\* The same call on stop dicts as the data store returns them: the key
\* order_preference may be absent or hold None.
StoredPreferences == Preferences \cup {AbsentKey, NoneValue}
InitStored ==
    /\ stops \in StopLists(StoredPreferences, {<<None, None>>})
    /\ start_location \in {None, 0}
    /\ end_location = None
    /\ config \in {c \in Configs : c.use_haversine_precompute /\ c.optimize_for_duration}
    /\ pc = "optimize_route_with_clustering"
    /\ cluster_config = Null
    /\ locations = <<>>
    /\ solution = Null
    /\ OwcIdle /\ SolverIdle /\ OracleIdle /\ SequencerIdle /\ ApiIdle

\* A call of cluster_stops(stops, cluster_config) on its own.
ClusterConfigs ==
    [max_stops_per_cluster : 1..MaxStops,
     min_clusters : {1, min_clusters},
     max_clusters : {min_clusters, max_clusters}]
DefaultConfig ==
    [enable_clustering |-> TRUE, max_stops_per_cluster |-> 1,
     use_haversine_precompute |-> TRUE, optimize_for_duration |-> TRUE,
     num_starts |-> NumStarts, time_limit_seconds |-> time_limit_seconds,
     service_time_seconds |-> DEFAULT_SERVICE_TIME]
InitCluster ==
    /\ stops \in StopLists({"auto"}, {<<None, None>>})
    /\ cluster_config \in ClusterConfigs
    /\ start_location = None /\ end_location = None
    /\ config = DefaultConfig
    /\ pc = "cluster_stops"
    /\ locations = <<>>
    /\ solution = Null
    /\ OwcIdle /\ SolverIdle /\ OracleIdle /\ SequencerIdle /\ ApiIdle

\* A call of VRPSolver.solve on its own, up to its loop, for a solver whose
\* config has time_limit_seconds 1..MaxTimeLimit and num_starts
\* 1..MaxBudgetStarts.
BudgetConfigs ==
    {[DefaultConfig EXCEPT !.time_limit_seconds = t, !.num_starts = k] :
        t \in 1..MaxTimeLimit, k \in 1..MaxBudgetStarts}
InitBudget ==
    /\ config \in BudgetConfigs
    /\ stops = <<>>
    /\ start_location = None /\ end_location = None
    /\ pc = "search_parameters"
    /\ cluster_config = Null
    /\ locations = <<>>
    /\ solution = Null
    /\ OwcIdle /\ SolverIdle /\ OracleIdle /\ SequencerIdle /\ ApiIdle

\* A call of VRPSolver.refine_with_google_maps(route) on its own: the
\* solver's locations and a route over their indices.
RouteInputs(n) ==
    UNION {[1..m -> 0..n - 1] : m \in 0..n + 1}
InitRefine ==
    /\ locations \in UNION {[1..n -> Longitudes] : n \in 1..MaxStops}
    /\ \E r \in RouteInputs(Len(locations)) :
         solution = [route |-> r, total_distance_meters |-> 0,
                     total_duration_seconds |-> 0]
    /\ stops = <<>>
    /\ start_location = None /\ end_location = None
    /\ config = DefaultConfig
    /\ pc = "refine_with_google_maps"
    /\ cluster_config = Null
    /\ OwcIdle /\ SolverIdle /\ OracleIdle /\ SequencerIdle /\ ApiIdle

(***************************************************************************)
(* optimize_route returns r to its caller: the direct path hands it on     *)
(* (line 477), the cluster loop accumulates it (lines 516-519).            *)
(***************************************************************************)
Return(r) ==
    /\ or_result' = r
    /\ stops' = IF r = Null THEN stops ELSE WriteBack(stops, r.stops)
    /\ IF caller = "direct"
       THEN /\ result' = r
            /\ pc' = "done"
            /\ UNCHANGED accVars
       ELSE /\ pc' = "cluster_loop"
            /\ cluster_idx' = cluster_idx + 1
            /\ result' = result
            /\ IF r # Null
               THEN /\ all_optimized_stops' = all_optimized_stops \o r.stops
                    /\ total_distance' = total_distance + r.total_distance_meters
                    /\ total_duration' = total_duration + r.total_duration_seconds
               ELSE UNCHANGED <<all_optimized_stops, total_distance, total_duration>>

\* A variant that answers a failed search with the first and last stops.
NoSolutionReturn_Unoptimized == Return(FixedOnlyResult(or_stops))
\* lines 385-386: no solution, optimize_route returns None
NoSolutionReturn == Return(Null)

\* A variant that always asks the oracle for the matrices.
UseHaversine_Never(cfg) == FALSE
\* create_distance_matrix, line 91: use_haversine (which line 381 sets to
\* config.use_haversine_precompute) or self.config.use_haversine_precompute
UseHaversine(cfg) == cfg.use_haversine_precompute

\* lines 394-432 for the solution sol
Assemble(sol) ==
    RouteResult(
        AssignSequence(first_stops(or_stops),
                       OptimizedAutoStops(sol.route, auto_stops(or_stops), or_start,
                                          or_end, start_index, end_index),
                       last_stops(or_stops)),
        sol.total_distance_meters, sol.total_duration_seconds)

(***************************************************************************)
(* optimize_route_with_clustering, lines 467-487: the direct path calls    *)
(* optimize_route on the whole input; otherwise the auto stops are         *)
(* clustered and the clusters ordered.                                     *)
(***************************************************************************)
OptimizeRouteWithClustering ==
    /\ pc = "optimize_route_with_clustering"
    /\ IF DirectPath(stops, config)
       THEN /\ caller' = "direct"
            /\ or_stops' = stops
            /\ or_start' = start_location
            /\ or_end' = end_location
            /\ pc' = "optimize_route"
            /\ UNCHANGED <<owcVars, cluster_order>>
       ELSE /\ cluster_config' = ClusterConfig(config.max_stops_per_cluster)
            /\ \E cl \in cluster_stops(auto_stops(stops),
                                      ClusterConfig(config.max_stops_per_cluster)) :
                 /\ clusters' = cl
                 /\ cluster_order' = optimize_cluster_order(cl, start_location,
                                                            end_location)
                 /\ ordered_clusters' =
                       [k \in 1..Len(cluster_order') |-> Loc(cl, cluster_order'[k])]
            /\ pc' = "cluster_loop"
            /\ UNCHANGED argVars
    /\ UNCHANGED <<n_clusters, apiVars,
                   inputVars, result, accVars, or_result, solverVars, searchVars,
                   solution, oracleVars>>

(***************************************************************************)
(* The cluster loop, lines 494-514: optimize_route is called on the next   *)
(* cluster, between the neighbouring centroids.                            *)
(***************************************************************************)
ClusterCall ==
    /\ pc = "cluster_loop"
    /\ cluster_idx < Len(ordered_clusters)
    /\ caller' = "cluster"
    /\ or_stops' = Loc(ordered_clusters, cluster_idx)
    /\ or_start' = IF cluster_idx = 0 THEN start_location
                   ELSE get_cluster_centroid(Loc(ordered_clusters, cluster_idx - 1))
    /\ or_end' = IF cluster_idx = Len(ordered_clusters) - 1 THEN end_location
                 ELSE get_cluster_centroid(Loc(ordered_clusters, cluster_idx + 1))
    /\ pc' = "optimize_route"
    /\ UNCHANGED <<sequencerVars, apiVars,
                   inputVars, result, owcVars, accVars, or_result, solverVars,
                   searchVars, solution, oracleVars>>

(***************************************************************************)
(* Lines 521-547: after the last cluster the stops are numbered and the    *)
(* summed totals returned.                                                 *)
(***************************************************************************)
ClusterCombine ==
    /\ pc = "cluster_loop"
    /\ cluster_idx = Len(ordered_clusters)
    /\ result' = [stops |-> AssignSequence(first_stops(stops), all_optimized_stops,
                                           last_stops(stops)),
                  total_distance_meters |-> total_distance,
                  total_duration_seconds |-> total_duration,
                  clusters_used |-> Len(clusters)]
    /\ stops' = WriteBack(stops, result'.stops)
    /\ pc' = "done"
    /\ UNCHANGED <<sequencerVars, apiVars,
                   paramVars, owcVars, accVars, argVars, or_result, solverVars,
                   searchVars, solution, oracleVars>>

(***************************************************************************)
(* optimize_route, lines 338-381: bucketing, the early return when no stop *)
(* is auto, the solver's locations and its matrices (estimator, or the     *)
(* oracle when use_haversine_precompute is off; the oracle call may raise).*)
(***************************************************************************)
OptimizeRoute ==
    /\ pc = "optimize_route"
    /\ LET autos == auto_stops(or_stops)
           locs == BuildLocations(autos, or_start, or_end)
       IN IF Len(autos) = 0
          THEN /\ Return(FixedOnlyResult(or_stops))
               /\ UNCHANGED <<solverVars, searchVars, solution, oracleVars>>
          ELSE /\ locations' = locs
               /\ start_index' = 0
               /\ end_index' = EndIndex(autos, or_start, or_end)
               /\ time_windows' = <<>>
               /\ time_per_start' = 0
               /\ attempt_costs' = {}
               /\ attempt' = 0
               /\ best_cost' = Infinity
               /\ best_solution' = Null
               /\ solution' = Null
               /\ UNCHANGED <<stops, result, accVars, or_result>>
               /\ IF UseHaversine(config)
                  THEN /\ distance_matrix' = HaversineDistanceMatrix(locs)
                       /\ duration_matrix' = HaversineDurationMatrix(locs)
                       /\ pc' = "search_parameters"
                       /\ UNCHANGED oracleVars
                  ELSE \/ /\ oracle_calls' = Append(oracle_calls,
                                 OracleCall("matrix", locs, locs, "raised"))
                          /\ pc' = "raised"
                          /\ UNCHANGED <<distance_matrix, duration_matrix, oracle_rows>>
                       \/ \E bad \in MatrixBadSets(Len(locs)) :
                            LET rows == get_distance_matrix(locs, locs, bad)
                            IN /\ oracle_calls' = Append(oracle_calls,
                                      OracleCall("matrix", locs, locs, "answered"))
                               /\ UNCHANGED oracle_rows
                               /\ distance_matrix' = OracleDistanceMatrix(rows)
                               /\ duration_matrix' = OracleDurationMatrix(rows)
                               /\ pc' = "search_parameters"
    /\ UNCHANGED <<sequencerVars, apiVars,
                   paramVars, owcVars, argVars>>

(***************************************************************************)
(* solve up to its loop, lines 172-279: the routing model and the search   *)
(* parameters, of which the time limit of one attempt is kept.             *)
(***************************************************************************)
SearchParameters ==
    /\ pc = "search_parameters"
    /\ time_per_start' = TimePerStart(config)
    /\ pc' = "solve"
    /\ UNCHANGED <<sequencerVars, apiVars,
                   inputVars, result, owcVars, accVars, argVars, or_result,
                   locations, start_index, end_index, time_windows,
                   distance_matrix, duration_matrix, searchVars, solution,
                   oracleVars>>

(***************************************************************************)
(* One iteration of the multi-start loop of solve, lines 281-291.          *)
(***************************************************************************)
SolveAttempt ==
    /\ pc = "solve"
    /\ attempt < config.num_starts
    /\ \E r \in SolveWithParameters(Len(locations), config, duration_matrix,
                                    time_windows, start_index, end_index) :
         LET cost == ObjectiveValue(r, config, distance_matrix, duration_matrix,
                                    start_index, end_index)
         IN /\ attempt_costs' = IF r # NoSolution THEN attempt_costs \cup {cost}
                                 ELSE attempt_costs
            /\ IF r # NoSolution /\ Improves(cost, best_cost)
               THEN /\ best_cost' = cost
                    /\ best_solution' = _extract_solution(r, config, distance_matrix,
                                              duration_matrix, start_index, end_index)
               ELSE UNCHANGED <<best_cost, best_solution>>
    /\ attempt' = attempt + 1
    /\ UNCHANGED <<sequencerVars, apiVars,
                   inputVars, pc, result, owcVars, accVars, argVars, or_result,
                   solverVars, solution, oracleVars>>

(***************************************************************************)
(* solve returns best_solution (line 293); optimize_route returns None     *)
(* when there is none (lines 385-386), goes on to the refinement (line     *)
(* 389) or builds its result from the solver's totals (lines 394-432).     *)
(***************************************************************************)
SolveReturn ==
    /\ pc = "solve"
    /\ attempt = config.num_starts
    /\ solution' = best_solution
    /\ IF best_solution = Null
       THEN NoSolutionReturn
       ELSE IF config.use_haversine_precompute /\ Len(best_solution.route) > 1
            THEN /\ pc' = "refine"
                 /\ UNCHANGED <<stops, result, accVars, or_result>>
            ELSE Return(Assemble(best_solution))
    /\ UNCHANGED <<sequencerVars, apiVars,
                   paramVars, owcVars, argVars, solverVars, searchVars, oracleVars>>

(***************************************************************************)
(* refine_with_google_maps and the rest of optimize_route, lines 390-432:  *)
(* one oracle call for the legs of the route; it raises or answers, and the*)
(* totals of the answer replace the solver's.                              *)
(***************************************************************************)
Refine ==
    /\ pc = "refine"
    /\ LET route_locations == RouteLocations(locations, solution.route)
           origins == Origins(route_locations)
           destinations == Destinations(route_locations)
       IN \/ /\ oracle_calls' = Append(oracle_calls,
                    OracleCall("refine", origins, destinations, "raised"))
             /\ pc' = "raised"
             /\ UNCHANGED <<stops, result, accVars, or_result, solution, oracle_rows>>
          \/ \E bad \in BadSets({<<i, i>> : i \in 0..Len(origins) - 1}) :
               LET rows == get_distance_matrix(origins, destinations, bad)
                   refined == [solution EXCEPT
                                 !.total_distance_meters = RefinedDistance(rows),
                                 !.total_duration_seconds = RefinedDuration(rows)]
               IN /\ oracle_calls' = Append(oracle_calls,
                         OracleCall("refine", origins, destinations, "answered"))
                  /\ UNCHANGED oracle_rows
                  /\ solution' = refined
                  /\ Return(Assemble(refined))
    /\ UNCHANGED <<sequencerVars, apiVars,
                   paramVars, owcVars, argVars, solverVars, searchVars>>

(***************************************************************************)
(* cluster_stops called on its own (lines 77-129).                         *)
(***************************************************************************)
ClusterStops ==
    /\ pc = "cluster_stops"
    /\ clusters' \in cluster_stops(stops, cluster_config)
    /\ n_clusters' = IF Len(stops) <= cluster_config.max_stops_per_cluster
                     THEN None
                     ELSE NClusters(Len(stops), cluster_config.max_stops_per_cluster,
                                    cluster_config.min_clusters,
                                    cluster_config.max_clusters)
    /\ pc' = "clustered"
    /\ UNCHANGED <<cluster_order, apiVars,
                   inputVars, result, ordered_clusters, cluster_config, accVars,
                   argVars, or_result, solverVars, searchVars, solution, oracleVars>>

(***************************************************************************)
(* refine_with_google_maps called on its own (lines 128-170): a route of   *)
(* fewer than two locations is answered without the oracle; otherwise one  *)
(* oracle call, which raises or answers.                                   *)
(***************************************************************************)
RefineWithGoogleMaps ==
    /\ pc = "refine_with_google_maps"
    /\ IF Len(solution.route) < 2
       THEN /\ solution' = [solution EXCEPT !.total_distance_meters = 0,
                                            !.total_duration_seconds = 0]
            /\ pc' = "refined"
            /\ UNCHANGED oracleVars
       ELSE LET route_locations == RouteLocations(locations, solution.route)
                origins == Origins(route_locations)
                destinations == Destinations(route_locations)
            IN \/ /\ oracle_calls' = Append(oracle_calls,
                         OracleCall("refine", origins, destinations, "raised"))
                  /\ pc' = "raised"
                  /\ UNCHANGED <<solution, oracle_rows>>
               \/ \E bad \in BadSets({<<i, i>> : i \in 0..Len(origins) - 1}) :
                  \E short \in {{}, {p[1] : p \in bad}} :
                    LET rows == ShortRows(
                            get_distance_matrix(origins, destinations, bad), short)
                    IN /\ oracle_calls' = Append(oracle_calls,
                              OracleCall("refine", origins, destinations, "answered"))
                       /\ oracle_rows' = rows
                       /\ solution' = [solution EXCEPT
                              !.total_distance_meters = RefinedDistance(rows),
                              !.total_duration_seconds = RefinedDuration(rows)]
                       /\ pc' = "refined"
    /\ UNCHANGED <<sequencerVars, apiVars,
                   inputVars, result, owcVars, accVars, argVars, or_result,
                   solverVars, searchVars>>

Next ==
    \/ SearchParameters
    \/ OptimizeRouteWithClustering
    \/ ClusterCall
    \/ ClusterCombine
    \/ OptimizeRoute
    \/ SolveAttempt
    \/ SolveReturn
    \/ Refine

Spec == Init /\ [][Next]_vars
SpecTW == InitTW /\ [][Next]_vars
SpecCollinear == InitCollinear /\ [][Next]_vars

(***************************************************************************)
(* optimize_cluster_order and _two_opt_improve called on their own, for    *)
(* 1..MaxOrderClusters clusters of one stop each at the longitudes         *)
(* 0..MaxOrderLongitude degrees, with or without start and end.            *)
(***************************************************************************)
OrderLongitudes == {d * Scale : d \in 0..MaxOrderLongitude}
OrderClusters ==
    UNION {{[i \in 1..n |-> <<[obj |-> i, id |-> i, order_preference |-> "auto",
                               longitude |-> l[i], time_window_start |-> None,
                               time_window_end |-> None]>>] :
              l \in [1..n -> OrderLongitudes]} : n \in 1..MaxOrderClusters}
Centroids(cls) == [i \in 1..Len(cls) |-> get_cluster_centroid(cls[i])]

InitOrderCommon ==
    /\ clusters \in OrderClusters
    /\ start_location \in {None} \cup OrderLongitudes
    /\ end_location \in {None} \cup OrderLongitudes
    /\ stops = <<>>
    /\ config = DefaultConfig
    /\ cluster_config = Null
    /\ n_clusters = None
    /\ locations = <<>>
    /\ solution = Null
    /\ result = Null /\ ordered_clusters = <<>>
    /\ cluster_idx = 0 /\ all_optimized_stops = <<>>
    /\ total_distance = 0 /\ total_duration = 0
    /\ caller = "nobody" /\ or_stops = <<>> /\ or_start = None /\ or_end = None
    /\ or_result = NotReturned
    /\ SolverIdle /\ OracleIdle /\ ApiIdle
InitOrder ==
    /\ InitOrderCommon
    /\ cluster_order = <<>>
    /\ pc = "optimize_cluster_order"
InitTwoOpt ==
    /\ InitOrderCommon
    /\ cluster_order \in PermSeqs(0..Len(clusters) - 1)
    /\ pc = "_two_opt_improve"

OptimizeClusterOrder ==
    /\ pc = "optimize_cluster_order"
    /\ cluster_order' = optimize_cluster_order(clusters, start_location, end_location)
    /\ pc' = "ordered"
    /\ UNCHANGED <<n_clusters, apiVars, inputVars, result, owcVars, accVars,
                   argVars, or_result, solverVars, searchVars, solution, oracleVars>>

TwoOptImprove ==
    /\ pc = "_two_opt_improve"
    /\ cluster_order' = _two_opt_improve(cluster_order, Centroids(clusters),
                                         start_location, end_location)
    /\ pc' = "improved"
    /\ UNCHANGED <<n_clusters, apiVars, inputVars, result, owcVars, accVars,
                   argVars, or_result, solverVars, searchVars, solution, oracleVars>>

\* A call that was made runs: the step on which it returns is taken, and
\* the next-state relation allows that step only with the order the function
\* computes.
OrderReturns == pc = "optimize_cluster_order" /\ pc' = "ordered"
TwoOptReturns == pc = "_two_opt_improve" /\ pc' = "improved"

NextOrder == OptimizeClusterOrder
SpecOrder == InitOrder /\ [][NextOrder]_vars /\ WF_pc(OrderReturns)

NextTwoOpt == TwoOptImprove
SpecTwoOpt == InitTwoOpt /\ [][NextTwoOpt]_vars /\ WF_pc(TwoOptReturns)

SpecStored == InitStored /\ [][Next]_vars

(***************************************************************************)
(* record_delivery_failure (api/delivery_attempts.py, lines 35-116) with   *)
(* verify_stop_ownership (16-32) and _reschedule_stop (119-173).  A table  *)
(* is the sequence of its rows and the id of a row is its position; a date *)
(* is a number of days after today.                                        *)
(***************************************************************************)
FailureTypes == {"absent", "rescheduled", "no_access"}
Users == 1..NumUsers
Today == 0

\* DeliveryFailureCreate (models/delivery_attempt.py, lines 15-20)
Failures ==
    [failure_type : FailureTypes, attempt_number : 1..3,
     rescheduled_date : {None} \cup 1..MaxDays]

HTTPException(code) == [status_code |-> code]
\* DeliveryFailureResult (lines 71-75) as the handler first builds it
DeliveryFailureResult(failure) ==
    [status_code |-> 200, success |-> TRUE, attempt_count |-> failure.attempt_number,
     is_final_failure |-> FALSE, rescheduled_to |-> None, new_stop_id |-> None,
     new_route_id |-> None]

\* _reschedule_stop, lines 131-146: the user's route of the target date,
\* created when there is none
RoutesOf(routes, user, target_date) ==
    {r \in 1..Len(routes) :
        routes[r].user_id = user /\ routes[r].route_date = target_date}
RoutesAfterReschedule(routes, user, target_date) ==
    IF RoutesOf(routes, user, target_date) # {} THEN routes
    ELSE Append(routes, [user_id |-> user, route_date |-> target_date])
TargetRoute(routes, user, target_date) ==
    IF RoutesOf(routes, user, target_date) # {}
    THEN CHOOSE r \in RoutesOf(routes, user, target_date) :
            \A q \in RoutesOf(routes, user, target_date) : r <= q
    ELSE Len(routes) + 1
\* lines 149-171: the copy of the stop in the target route
NewStop(original_stop, target_route, original_stop_id) ==
    [route_id |-> target_route, status |-> "pending",
     attempt_count |-> original_stop.attempt_count,
     last_failure_type |-> NoneValue,
     rescheduled_from_stop_id |-> original_stop_id]

\* The store after the handler's writes: attempts, stps and routes are the
\* tables, and the response is what the client gets.
Handled(response_, attempts, stps, routes) ==
    /\ response' = response_
    /\ delivery_attempts' = attempts
    /\ stops_table' = stps
    /\ routes_table' = routes

\* lines 86-91 and 101-106: _reschedule_stop and the fields of the result
Rescheduled(res, stop, stop_id, user, target_date, attempts, stps, final_status) ==
    LET target == TargetRoute(routes_table, user, target_date)
        new_stops == Append(stps, NewStop(stop, target, stop_id))
    IN Handled([res EXCEPT !.rescheduled_to = target_date,
                           !.new_stop_id = Len(new_stops),
                           !.new_route_id = target],
               attempts,
               [new_stops EXCEPT ![stop_id].status = final_status],
               RoutesAfterReschedule(routes_table, user, target_date))

engineVars == <<inputVars, pc, result, owcVars, accVars, argVars, or_result,
                solverVars, searchVars, solution, oracleVars, sequencerVars>>

RecordDeliveryFailure(stop_id, failure, current_user) ==
    /\ pc = "api"
    /\ Len(delivery_attempts) < MaxAttemptRows
    /\ request' = [stop_id |-> stop_id, failure |-> failure,
                   current_user |-> current_user]
    /\ IF stop_id \notin 1..Len(stops_table)
       THEN /\ response' = HTTPException(404)
            /\ UNCHANGED storeVars
       ELSE IF routes_table[stops_table[stop_id].route_id].user_id # current_user
       THEN /\ response' = HTTPException(403)
            /\ UNCHANGED storeVars
       ELSE LET stop == stops_table[stop_id]
                \* lines 52-60
                attempts == Append(delivery_attempts,
                                [stop_id |-> stop_id,
                                 attempt_number |-> failure.attempt_number,
                                 failure_type |-> failure.failure_type,
                                 rescheduled_date |-> failure.rescheduled_date])
                \* lines 63-69
                stps == [stops_table EXCEPT
                            ![stop_id].status = "failed",
                            ![stop_id].attempt_count = failure.attempt_number,
                            ![stop_id].last_failure_type = failure.failure_type]
                res == DeliveryFailureResult(failure)
            IN IF failure.failure_type = "absent"
               THEN IF failure.attempt_number >= 3
                    THEN Handled([res EXCEPT !.is_final_failure = TRUE],
                                 attempts, stps, routes_table)
                    ELSE Rescheduled(res, stop, stop_id, current_user, Today + 1,
                                     attempts, stps, "failed")
               ELSE IF failure.failure_type = "rescheduled"
               THEN IF failure.rescheduled_date = None
                    THEN Handled(HTTPException(400), attempts, stps, routes_table)
                    ELSE Rescheduled(res, stop, stop_id, current_user,
                                     failure.rescheduled_date, attempts, stps,
                                     "rescheduled")
               ELSE Handled([res EXCEPT !.is_final_failure = TRUE],
                            attempts, stps, routes_table)
    /\ UNCHANGED engineVars

\* The store before the requests: every user has today's route with one
\* pending stop on it.
InitDelivery ==
    /\ routes_table = [u \in Users |-> [user_id |-> u, route_date |-> Today]]
    /\ stops_table = [u \in Users |->
                         [route_id |-> u, status |-> "pending", attempt_count |-> 0,
                          last_failure_type |-> NoneValue,
                          rescheduled_from_stop_id |-> None]]
    /\ delivery_attempts = <<>>
    /\ request = Null /\ response = Null
    /\ stops = <<>>
    /\ start_location = None /\ end_location = None
    /\ config = DefaultConfig
    /\ pc = "api"
    /\ cluster_config = Null
    /\ locations = <<>>
    /\ solution = Null
    /\ OwcIdle /\ SolverIdle /\ OracleIdle /\ SequencerIdle

NextDelivery ==
    \E stop_id \in 1..Len(stops_table) + 1, failure \in Failures,
       current_user \in Users :
        RecordDeliveryFailure(stop_id, failure, current_user)
SpecDelivery == InitDelivery /\ [][NextDelivery]_vars

NextCluster == ClusterStops
SpecCluster == InitCluster /\ [][NextCluster]_vars

NextBudget == SearchParameters
SpecBudget == InitBudget /\ [][NextBudget]_vars

NextRefine == RefineWithGoogleMaps
SpecRefine == InitRefine /\ [][NextRefine]_vars

(***************************************************************************)
(* Properties.                                                             *)
(***************************************************************************)
\* optimize_route has returned to its caller; or_stops, or_start and or_end
\* are still the arguments of that call.
Returned == pc \in {"done", "cluster_loop"} /\ or_result # NotReturned

Occurrences(rs, id) == Cardinality({k \in 1..Len(rs) : rs[k].id = id})
SequenceOrders(rs) == {rs[k].sequence_order : k \in 1..Len(rs)}
Rank(stop) ==
    CASE stop.order_preference = "first" -> 0
      [] stop.order_preference = "auto" -> 1
      [] stop.order_preference = "last" -> 2
OrderRespected(rs) ==
    \A i, j \in 1..Len(rs) :
        Rank(rs[i]) < Rank(rs[j]) => rs[i].sequence_order < rs[j].sequence_order

\* C1: whenever optimize_route returns a result, every input stop appears in
\* it exactly once and the sequence_order values are exactly 1..N, N the
\* number of input stops, with or without start and end locations.
C1_EveryStopOnce ==
    (Returned /\ or_result # Null) =>
        /\ Len(or_result.stops) = Len(or_stops)
        /\ \A i \in 1..Len(or_stops) : Occurrences(or_result.stops, or_stops[i].id) = 1
        /\ SequenceOrders(or_result.stops) = 1..Len(or_stops)

\* C2: in a result of optimize_route and in a result of
\* optimize_route_with_clustering, every first stop has a smaller
\* sequence_order than every auto stop, and every auto stop a smaller one
\* than every last stop.
C2_PreferenceOrder ==
    /\ (Returned /\ or_result # Null) => OrderRespected(or_result.stops)
    /\ (pc = "done" /\ result # Null) => OrderRespected(result.stops)
C2_Witness ==
    /\ pc = "done" /\ result # Null
    /\ \E i, j, k \in 1..Len(result.stops) :
          /\ result.stops[i].order_preference = "first"
          /\ result.stops[j].order_preference = "auto"
          /\ result.stops[k].order_preference = "last"

\* C3: for a single auto stop and neither start nor end location, the
\* result holds that stop with sequence_order 1 and both totals are 0.
C3_SingleAutoStop ==
    (/\ pc = "done" /\ caller = "direct" /\ result # Null
     /\ Len(stops) = 1 /\ stops[1].order_preference = "auto"
     /\ start_location = None /\ end_location = None) =>
        /\ result.stops = <<WithSeq(copy(stops[1]), 1)>>
        /\ result.total_distance_meters = 0
        /\ result.total_duration_seconds = 0

IsPartition(cls, stps) ==
    /\ SumSeq([c \in 1..Len(cls) |-> Len(cls[c])]) = Len(stps)
    /\ \A i \in 1..Len(stps) :
          Cardinality({<<c, k>> \in (1..Len(cls)) \X (1..Len(stps)) :
                          k <= Len(cls[c]) /\ cls[c][k] = stps[i]}) = 1
NoEmptyCluster(cls) == \A c \in 1..Len(cls) : Len(cls[c]) > 0

ClustersUsed(r) == "clusters_used" \in DOMAIN r
C6_ClusterSizeBound ==
    pc = "clustered" =>
        \A c \in 1..Len(clusters) :
            Len(clusters[c]) <= cluster_config.max_stops_per_cluster

\* The time windows the stops of the call carry, one per location.
WindowOf(stop) ==
    IF stop.time_window_start = None THEN <<0, Horizon>>
    ELSE <<stop.time_window_start, stop.time_window_end>>
StopWindows(autos, start, end) ==
    (IF start # None THEN <<(<<0, Horizon>>)>> ELSE <<>>)
    \o [i \in 1..Len(autos) |-> WindowOf(autos[i])]
    \o (IF end # None /\ end # start THEN <<(<<0, Horizon>>)>> ELSE <<>>)
WindowsUnsatisfiable ==
    FeasibleRoutes(Len(locations), duration_matrix, config.service_time_seconds,
                   StopWindows(auto_stops(or_stops), or_start, or_end),
                   start_index, end_index) = {}

\* C7: when no tour can honour the time windows of the stops,
\* optimize_route returns None.
C7_InfeasibleWindowsNone ==
    (pc = "done" /\ caller = "direct" /\ Len(auto_stops(stops)) > 0
     /\ duration_matrix # <<>> /\ WindowsUnsatisfiable) => result = Null

\* C8: when none of the num_starts attempts has produced a solution, solve
\* returns None and optimize_route returns None to its caller, without
\* raising and without a refinement call to the oracle.
C8_NoSolutionNone ==
    [][(pc = "solve" /\ attempt = config.num_starts /\ best_solution = Null) =>
          /\ or_result' = Null
          /\ solution' = Null
          /\ pc' \in {"done", "cluster_loop"}
          /\ oracle_calls' = oracle_calls]_vars
C8_Witness ==
    /\ pc = "done" /\ caller = "direct"
    /\ attempt = config.num_starts /\ best_solution = Null
    /\ Len(auto_stops(stops)) > 1
    /\ result = Null /\ or_result = Null

Legs == 0..Len(solution.route) - 2
LegFrom(i) == Loc(locations, solution.route[i + 1])
LegTo(i) == Loc(locations, solution.route[i + 2])
UnavailableLegs ==
    {i \in Legs : i \notin DOMAIN oracle_rows[i] \/ oracle_rows[i][i].status # "OK"}
SumOver(S, f(_)) ==
    LET RECURSIVE Sum(_)
        Sum(T) == IF T = {} THEN 0
                  ELSE LET x == CHOOSE y \in T : TRUE IN f(x) + Sum(T \ {x})
    IN Sum(S)
OracleLegDistance(i) == OracleDistance(LegFrom(i), LegTo(i))
EstimatorLegDistance(i) == IntMeters(haversine_distance(LegFrom(i), LegTo(i)))

RefinementRaised ==
    \E k \in 1..Len(oracle_calls) :
        oracle_calls[k].purpose = "refine" /\ oracle_calls[k].outcome = "raised"

\* C10: when the oracle call of the refinement raises, optimize_route
\* still returns a route built from the solver's totals.
C10_RefinementFailureAbsorbed ==
    RefinementRaised => pc # "raised"

RefineCalls == {k \in 1..Len(oracle_calls) : oracle_calls[k].purpose = "refine"}

\* C11: on the clustering path the refinement's oracle call is not made
\* while the clusters are being solved; it is made exactly once, after the
\* last cluster.
C11_RefineOnceAfterStitch ==
    caller = "cluster" =>
        /\ pc # "done" => RefineCalls = {}
        /\ pc = "done" => Cardinality(RefineCalls) = 1

\* C12: with no auto stop the result is the first stops in input order,
\* then the last stops in input order, numbered 1..N, with both totals 0;
\* no matrix is built, no search attempt made and no oracle call made.
C12_NoAutoStops ==
    (pc = "done" /\ Len(auto_stops(stops)) = 0) =>
        /\ result # Null
        /\ Len(result.stops) = Len(stops)
        /\ \A i \in 1..Len(stops) : Occurrences(result.stops, stops[i].id) = 1
        /\ \A k \in 1..Len(result.stops) : result.stops[k].sequence_order = k
        /\ \A i, j \in 1..Len(result.stops) :
              i < j => /\ Rank(result.stops[i]) <= Rank(result.stops[j])
                       /\ Rank(result.stops[i]) = Rank(result.stops[j])
                             => result.stops[i].id < result.stops[j].id
        /\ result.total_distance_meters = 0
        /\ result.total_duration_seconds = 0
        /\ distance_matrix = <<>> /\ duration_matrix = <<>>
        /\ attempt = 0 /\ best_solution = Null
        /\ oracle_calls = <<>>
C12_Witness ==
    /\ pc = "done" /\ Len(auto_stops(stops)) = 0
    /\ Len(stops) >= 2
    /\ stops[1].order_preference = "last"
    /\ stops[2].order_preference = "first"
    /\ result # Null /\ Len(result.stops) = Len(stops)

\* C14: a call with an empty stop list and neither start nor end location
\* aborts with an error; it does not return a result.
C14_EmptyInputAborts ==
    (Len(stops) = 0 /\ start_location = None /\ end_location = None) => pc # "done"

\* C17: on the clustering path, when optimize_route returns None for a
\* cluster (here the last one), optimize_route_with_clustering returns
\* None, never a route without that cluster's stops.
C17_ClusterInfeasibleNone ==
    (pc = "done" /\ caller = "cluster" /\ or_result = Null) => result = Null

NonDepotNodes == (0..Len(locations) - 1) \ {start_index, end_index}

\* C19: with fewer than 2 non-depot nodes the solver makes no search
\* attempt (SolveWithParameters is never called).
C19_TrivialTourNoSearch ==
    (locations # <<>> /\ Cardinality(NonDepotNodes) < 2) => attempt = 0

ResultIds == [k \in 1..Len(result.stops) |-> result.stops[k].id]

\* C13: for the three auto stops (0,0), (0,1), (0,2), no start or end
\* location and optimize_for_duration off, the order optimize_route returns
\* is stop 1, 2, 3 or stop 3, 2, 1, all three stops present.
C13_CollinearOrder ==
    (/\ pc = "done" /\ caller = "direct" /\ result # Null
     /\ stops = CollinearStops
     /\ start_location = None /\ end_location = None
     /\ ~config.optimize_for_duration) =>
        ResultIds \in {<<1, 2, 3>>, <<3, 2, 1>>}

LastCall(calls) == calls[Len(calls)]

\* C18, as stated: whatever the configuration, the oracle is called only by
\* the refinement, after the search of the same optimization has finished.
C18_OracleOnlyInRefiner ==
    [][oracle_calls' # oracle_calls =>
          /\ pc = "refine" /\ attempt = config.num_starts
          /\ LastCall(oracle_calls').purpose = "refine"]_vars
\* C18, amended: with use_haversine_precompute on, the oracle is called
\* only by the refinement, on the legs of the final route, after the search
\* has finished; with use_haversine_precompute off, it is called once per
\* optimize_route, before the search, for the square matrix of the solver's
\* locations, and never by a refinement.
C18_OracleByMode ==
    [][oracle_calls' # oracle_calls =>
          /\ Len(oracle_calls') = Len(oracle_calls) + 1
          /\ IF config.use_haversine_precompute
             THEN /\ pc = "refine" /\ attempt = config.num_starts
                  /\ LastCall(oracle_calls').purpose = "refine"
                  /\ LastCall(oracle_calls').origins =
                        Origins(RouteLocations(locations, solution.route))
                  /\ LastCall(oracle_calls').destinations =
                        Destinations(RouteLocations(locations, solution.route))
             ELSE /\ pc = "optimize_route" /\ attempt' = 0
                  /\ LastCall(oracle_calls').purpose = "matrix"
                  /\ LastCall(oracle_calls').origins = locations'
                  /\ LastCall(oracle_calls').destinations = locations']_vars
C18_Witness ==
    /\ pc = "done" /\ caller = "direct" /\ result # Null
    /\ ~config.use_haversine_precompute
    /\ Len(oracle_calls) = 1
    /\ oracle_calls[1].purpose = "matrix"
    /\ attempt = config.num_starts

\* C20, as stated: each of the num_starts attempts gets a time limit of
\* max(10, floor(time_limit_seconds / num_starts)) seconds, and the limits
\* of all the attempts together never exceed time_limit_seconds.
C20_LimitsWithinBudget ==
    pc = "solve" =>
        LET T == config.time_limit_seconds
            K == config.num_starts
        IN /\ time_per_start = (IF T \div K >= 10 THEN T \div K ELSE 10)
           /\ K * time_per_start <= T
\* C20, amended: each attempt gets max(10, floor(time_limit_seconds /
\* num_starts)) seconds; the limits together stay within
\* time_limit_seconds when time_limit_seconds >= 10 * num_starts, and are
\* 10 * num_starts seconds, more than time_limit_seconds, otherwise.
C20_LimitsFloorTen ==
    pc = "solve" =>
        LET T == config.time_limit_seconds
            K == config.num_starts
        IN /\ time_per_start = (IF T \div K >= 10 THEN T \div K ELSE 10)
           /\ T >= 10 * K => K * time_per_start <= T
           /\ T < 10 * K => K * time_per_start = 10 * K /\ K * time_per_start > T
C20_Witness ==
    /\ pc = "solve"
    /\ config.time_limit_seconds = 10 /\ config.num_starts = 3
    /\ time_per_start = 10

MinOf(S) == CHOOSE x \in S : \A y \in S : x <= y

\* C16: in the loop of solve the retained best cost is the minimum
\* objective value over the attempts so far that returned a solution, it
\* never increases from one attempt to the next, and the retained solution
\* (the one solve returns) is the one extracted from a tour of that cost.
C16_BestIsMinimum ==
    /\ [](pc = "solve" =>
            IF attempt_costs = {}
            THEN best_solution = Null /\ best_cost = Infinity
            ELSE /\ best_cost = MinOf(attempt_costs)
                 /\ best_solution # Null
                 /\ ObjectiveValue(best_solution.route, config, distance_matrix,
                                   duration_matrix, start_index, end_index) = best_cost
                 /\ best_solution = _extract_solution(best_solution.route, config,
                                        distance_matrix, duration_matrix,
                                        start_index, end_index))
    /\ [][(pc = "solve" /\ pc' = "solve") => best_cost' <= best_cost]_vars
    /\ [][(pc = "solve" /\ pc' # "solve") => solution' = best_solution]_vars
C16_Witness ==
    /\ pc = "solve" /\ attempt = config.num_starts
    /\ Cardinality(attempt_costs) >= 2
    /\ best_cost = MinOf(attempt_costs)
    /\ best_solution # Null

\* C15: the calls never modify the stop dicts passed in: no step changes
\* the input list, no input stop ever carries sequence_order, and the stops
\* of a result are copies.
C15_InputsUntouched ==
    /\ [](\A i \in 1..Len(stops) : "sequence_order" \notin DOMAIN stops[i])
    /\ []((pc = "done" /\ result # Null) =>
            \A k \in 1..Len(result.stops) :
                /\ result.stops[k].obj = 0
                /\ result.stops[k].sequence_order = k)
    /\ [][stops' = stops]_vars
C15_Witness ==
    /\ pc = "done" /\ caller = "cluster" /\ result # Null
    /\ \E i, j \in 1..Len(result.stops) :
          /\ result.stops[i].order_preference = "first"
          /\ result.stops[j].order_preference = "auto"
    /\ \A i \in 1..Len(stops) : "sequence_order" \notin DOMAIN stops[i]

(***************************************************************************)
(* Claims C21, C22: the refinement's single call and its totals.           *)
(***************************************************************************)
DiagonalDistance(i) ==
    IF i \in DOMAIN oracle_rows[i] /\ oracle_rows[i][i].status = "OK"
    THEN oracle_rows[i][i].distance ELSE 0
DiagonalDuration(i) ==
    IF i \in DOMAIN oracle_rows[i] /\ oracle_rows[i][i].status = "OK"
    THEN oracle_rows[i][i].duration ELSE 0
OracleLegDuration(i) == OracleDuration(LegFrom(i), LegTo(i))

\* C21: refine_with_google_maps on a route of N >= 2 locations calls the
\* oracle exactly once, with the first N-1 route locations as origins and
\* the last N-1 as destinations, both in route order, and the totals are
\* the sums over the legs i of the answer's element (i, i) only.
C21_OneDiagonalCall ==
    (pc \in {"refined", "raised"} /\ Len(solution.route) >= 2) =>
        /\ Len(oracle_calls) = 1
        /\ oracle_calls[1].origins =
              [k \in 1..Len(solution.route) - 1 |-> LegFrom(k - 1)]
        /\ oracle_calls[1].destinations =
              [k \in 1..Len(solution.route) - 1 |-> LegTo(k - 1)]
        /\ pc = "refined" =>
              /\ solution.total_distance_meters = SumOver(Legs, DiagonalDistance)
              /\ solution.total_duration_seconds = SumOver(Legs, DiagonalDuration)
C21_Witness ==
    /\ pc = "refined" /\ Cardinality(Legs) = 3
    /\ UnavailableLegs = {}
    /\ \E i, j \in Legs : i # j /\ DiagonalDistance(i) > 0 /\ DiagonalDistance(j) > 0
    /\ \E i \in Legs : oracle_rows[i][0].distance # DiagonalDistance(i)

\* C22: a leg whose element is not OK, or whose row lacks the element, adds
\* 0 to both totals: once the oracle has answered, refine_with_google_maps
\* returns, and its totals are the oracle's distance and duration summed
\* over the legs whose element is there with status OK.
C22_UnusableLegsAddZero ==
    (pc \in {"refined", "raised"} /\ Len(solution.route) >= 2
        /\ oracle_calls[Len(oracle_calls)].outcome = "answered") =>
        /\ pc = "refined"
        /\ solution.total_distance_meters =
              SumOver(Legs \ UnavailableLegs, OracleLegDistance)
        /\ solution.total_duration_seconds =
              SumOver(Legs \ UnavailableLegs, OracleLegDuration)
C22_Witness ==
    /\ pc = "refined" /\ Cardinality(Legs) = 3
    /\ \E i \in Legs :
          /\ i \notin DOMAIN oracle_rows[i]
          /\ 0 \in DOMAIN oracle_rows[i] /\ oracle_rows[i][0].duration > 0
          /\ OracleLegDuration(i) > 0
    /\ \E j \in Legs \ UnavailableLegs : OracleLegDuration(j) > 0

(***************************************************************************)
(* Claim C29: the totals of the solution solve returns.                    *)
(***************************************************************************)
MatrixSum(m, route) ==
    SumSeq([k \in 1..Len(route) - 1 |-> m[route[k]][route[k + 1]]])

\* C29: whether optimize_for_duration is true or false, the solution solve
\* is about to return has total_distance_meters equal to the sum of
\* distance_matrix over the legs of its route and total_duration_seconds
\* equal to the sum of duration_matrix over them.
C29_TotalsFromMatrices ==
    (pc = "solve" /\ attempt = config.num_starts /\ best_solution # Null) =>
        /\ best_solution.total_distance_meters =
              MatrixSum(distance_matrix, best_solution.route)
        /\ best_solution.total_duration_seconds =
              MatrixSum(duration_matrix, best_solution.route)

(***************************************************************************)
(* Claim C27: the number of clusters cluster_stops asks for and returns.   *)
(***************************************************************************)
Clamp(x, lo, hi) == IF x < lo THEN lo ELSE IF x > hi THEN hi ELSE x
CeilOfQuotient(n, d) == CHOOSE c \in 0..n : c * d >= n /\ (c - 1) * d < n

IsPermutationOfIndices(o, n) ==
    Len(o) = n /\ \A c \in 0..n - 1 : Cardinality({k \in 1..Len(o) : o[k] = c}) = 1
NNOrder == NearestNeighborOrder(Centroids(clusters), start_location)
OrderLength(o) == PathLength(o, Centroids(clusters), start_location, end_location)

\* C23: for every non-empty list of non-empty clusters, with or without a
\* start and an end location, optimize_cluster_order returns, and the order
\* it returns holds every cluster index 0..n-1 exactly once, also when
\* 2-opt has run.
C23_OrderIsPermutation ==
    /\ <>(pc = "ordered")
    /\ [](pc = "ordered" => IsPermutationOfIndices(cluster_order, Len(clusters)))
C23_Witness ==
    /\ pc = "ordered" /\ Len(clusters) = MaxOrderClusters
    /\ end_location # None /\ start_location # None
    /\ cluster_order # NNOrder
    /\ IsPermutationOfIndices(cluster_order, Len(clusters))

TwoOptRuns == end_location # None /\ Len(clusters) > 2
\* No reversal of the positions i+1..j (0-based, j >= i+2) of o makes the
\* path strictly shorter.
LocalOptimum(o) ==
    \A i \in 0..Len(o) - 2 : \A j \in i + 2..Len(o) - 1 :
        OrderLength(ReverseSegment(o, i, j)) >= OrderLength(o)

\* C24: when optimize_cluster_order has run 2-opt, the path start ->
\* centroids in the returned order -> end is no longer than the same path
\* in the nearest-neighbor order 2-opt was given.
C24_TwoOptNoLonger ==
    (pc = "ordered" /\ TwoOptRuns) => OrderLength(cluster_order) <= OrderLength(NNOrder)
C24_Witness ==
    /\ pc = "ordered" /\ TwoOptRuns
    /\ OrderLength(cluster_order) < OrderLength(NNOrder)

\* C25, as stated: optimize_cluster_order runs 2-opt only when both a start
\* and an end location are given and there are at least 3 clusters; in
\* every other case, end given without start included, it returns exactly
\* the nearest-neighbor order.
C25_TwoOptNeedsStartAndEnd ==
    (pc = "ordered" /\ ~(start_location # None /\ end_location # None
                         /\ Len(clusters) >= 3)) =>
        cluster_order = NNOrder
\* C25, amended: optimize_cluster_order runs 2-opt when an end location is
\* given and there are at least 3 clusters, with or without a start
\* location: the order it returns then begins with the same cluster as the
\* nearest-neighbor order, is no longer than it and is a 2-opt local
\* optimum.  With no end location or fewer than 3 clusters it returns
\* exactly the nearest-neighbor order.
C25_TwoOptNeedsEnd ==
    pc = "ordered" =>
        IF end_location # None /\ Len(clusters) >= 3
        THEN /\ cluster_order[1] = NNOrder[1]
             /\ OrderLength(cluster_order) <= OrderLength(NNOrder)
             /\ LocalOptimum(cluster_order)
        ELSE cluster_order = NNOrder
C25_Witness ==
    /\ pc = "ordered"
    /\ start_location = None /\ end_location # None /\ Len(clusters) >= 3
    /\ cluster_order # NNOrder
    /\ ~LocalOptimum(NNOrder)

\* C26: _two_opt_improve returns, and the order it returns is a 2-opt local
\* optimum: no pair i < j with j >= i+2 whose reversal of the positions
\* i+1..j makes the path strictly shorter.
C26_TwoOptLocalOptimum ==
    /\ <>(pc = "improved")
    /\ [](pc = "improved" => LocalOptimum(cluster_order))
C26_Witness ==
    /\ pc = "improved" /\ Len(clusters) = MaxOrderClusters
    /\ start_location # None /\ end_location # None
    /\ LocalOptimum(cluster_order)
    /\ \E p \in PermSeqs(0..Len(clusters) - 1) :
          /\ OrderLength(p) > OrderLength(cluster_order)
          /\ ~LocalOptimum(p)
          /\ _two_opt_improve(p, Centroids(clusters), start_location,
                              end_location) = cluster_order

(***************************************************************************)
(* Claim C28: the three buckets of the stops.                              *)
(***************************************************************************)
Buckets(stps) == <<first_stops(stps), auto_stops(stps), last_stops(stps)>>
BucketsOf(stop, stps) == {b \in 1..3 : stop \in Range(Buckets(stps)[b])}

\* C28: once optimize_route_with_clustering or optimize_route has split its
\* stops, every input stop is in exactly one of first_stops, auto_stops and
\* last_stops, and a stop whose order_preference is missing or None is in
\* auto_stops.
C28_BucketsPartition ==
    /\ pc # "optimize_route_with_clustering" =>
          \A i \in 1..Len(stops) :
              /\ Cardinality(BucketsOf(stops[i], stops)) = 1
              /\ stops[i].order_preference \in {AbsentKey, NoneValue} =>
                    BucketsOf(stops[i], stops) = {2}
    /\ pc = "optimize_route" =>
          \A i \in 1..Len(or_stops) :
              Cardinality(BucketsOf(or_stops[i], or_stops)) = 1

(***************************************************************************)
(* Claim C30: a 'rescheduled' failure without a date.                      *)
(***************************************************************************)
\* The request just handled is a 'rescheduled' failure with no
\* rescheduled_date, for a stop that exists and belongs to the user.
MissingDateRequest ==
    /\ request # Null
    /\ request.failure.failure_type = "rescheduled"
    /\ request.failure.rescheduled_date = None
    /\ request.stop_id \in 1..Len(stops_table)
    /\ routes_table[stops_table[request.stop_id].route_id].user_id
          = request.current_user

\* C30: record_delivery_failure answers a 'rescheduled' failure that has
\* no rescheduled_date with HTTP 400 and leaves the store as it was: no
\* delivery_attempts row is inserted, and the stop's status, attempt_count
\* and last_failure_type (and every other row) are unchanged.
C30_MissingDateStoreUnchanged ==
    [][(request' # request /\ MissingDateRequest') =>
          /\ response'.status_code = 400
          /\ delivery_attempts' = delivery_attempts
          /\ stops_table' = stops_table
          /\ routes_table' = routes_table]_vars

=============================================================================
